---- MODULE Spec2Model ----
(***************************************************************************)
(* Tutorial overlay subsystem: the Modal class (tutorial/lib/modal.ts) and *)
(* the tutorial sequencer (tutorial/lib/tutorial.ts).                      *)
(*                                                                         *)
(* Spec       - the sequencer driven by host entry-point calls, the user's *)
(*              close-button clicks, window resizes and timers.            *)
(* SpecModal  - one Modal instance driven by arbitrary show() / close() /  *)
(*              destroy() calls, close-button clicks and timers.           *)
(* SpecPosition - the placement arithmetic of positionModal() and          *)
(*              setModalPosition() over sample anchors and overlay sizes.  *)
(* SpecWebModal - one AnkiHubModal (ankihub/gui/web/modal.js) with its     *)
(*              hand-rolled placement and debounced resize handler.        *)
(* SpecEffect   - the TutorialEffect variant of the sequencer with its     *)
(*              click-target interception and resize relay.                *)
(* SpecFsrs     - the debounced relay of the FSRS parameters textarea.     *)
(* SpecButtons  - the reviewer's sidebar buttons.                          *)
(* SpecAI       - the chatbot iframe of the reviewer.                      *)
(***************************************************************************)
EXTENDS Integers, Sequences, FiniteSets, TLC

\* ---------------------------------------------------------------- bounds
MaxModals == 2      \* Modal instances the sequencer may construct
MaxTimers == 2      \* pending detach timers per instance
MaxClicks == 2      \* close-button clicks per instance
MaxText   == 2      \* characters in the FSRS parameters textarea

\* -------------------------------------------------------------- DOM model
NoModal == 0
NULL    == "null"
NoAttr  == "<no attribute>"

ModalIds  == 1..MaxModals
Elements  == {"e1", "e2"}
Selectors == {"#e1", "#e2", "#missing"}
NoTarget  == ""
PEValues  == {"", "auto", "none"}
Geoms     == {1, 2}      \* window layouts a resize may produce
Steps     == {1, 2}      \* currentStep values the host passes

\* document.querySelector(selector): the element, or null when none matches
QuerySelector(sel) ==
    IF sel = "#e1" THEN "e1" ELSE IF sel = "#e2" THEN "e2" ELSE NULL

\* element.getBoundingClientRect() under window layout g
BoundingRect(e, g) ==
    IF e = "e1" THEN [top |-> 10 * g, left |-> 5, width |-> 40 * g, height |-> 20]
    ELSE [top |-> 50, left |-> 10 * g, width |-> 30, height |-> 15 * g]

NoRect == [top |-> 0, left |-> 0, width |-> 0, height |-> 0]

\* a bridge command: name plus, for the resize relay, step and rectangle
Cmd(name) == [cmd |-> name, step |-> 0, rect |-> NoRect]
ResizeCmd(step, r) == [cmd |-> "ankihub_tutorial_target_resize", step |-> step, rect |-> r]

\* JavaScript truthiness of a getAttribute() result (null and "" are falsy)
Truthy(v) == v # NoAttr /\ v # ""

\* ------------------------------------------------------------ footer nodes
\* an element built with document.createElement: tag, textContent and the
\* name of what its click listener does ("" when it has none)
Span(text) == [tag |-> "span", text |-> text, click |-> ""]
Button(text, click) == [tag |-> "button", text |-> text, click |-> click]

\* the footer option: a string (its markup, as the nodes it parses to), one
\* HTMLElement, or a JavaScript array of elements
FooterString(nodes) == [kind |-> "string", items |-> nodes]
FooterArray(nodes)  == [kind |-> "array", items |-> nodes]
EmptyFooter == FooterString(<<>>)

\* `${currentStep} of ${stepCount}`
StepText(currentStep, stepCount) ==
    ToString(currentStep) \o " of " \o ToString(stepCount)

\* the step arguments the host passes to showTutorialModal
StepArgs ==
    {[currentStep |-> 1, stepCount |-> 3,
      primaryButton |-> [show |-> TRUE, label |-> "Next"]],
     [currentStep |-> 2, stepCount |-> 3,
      primaryButton |-> [show |-> FALSE, label |-> "Next"]]}

\* the footer array showTutorialModal builds
StepFooter(a) ==
    FooterArray(
      <<Span(StepText(a.currentStep, a.stepCount))>> \o
      (IF a.primaryButton.show
       THEN <<Button(a.primaryButton.label, "ankihub_tutorial_primary_button_clicked")>>
       ELSE <<>>))

\* the footer array promptForOnboardingTour builds
PromptFooter ==
    FooterArray(<<Button("Close", "destroyActiveTutorialModal"),
                  Button("Take tour", "ankihub_start_onboarding")>>)

\* if (this.options.footer): every value but the empty string is truthy
HasFooterElement(o) == o.footer # EmptyFooter

\* the children createModal gives the footer div: a string is parsed as
\* markup, an HTMLElement is appended, any other value adds nothing
RenderedFooter(o) ==
    IF ~HasFooterElement(o) THEN <<>>
    ELSE IF o.footer.kind = "string" THEN o.footer.items
    ELSE IF o.footer.kind = "element" THEN o.footer.items
    ELSE <<>>

\* ------------------------------------------------------------ Modal options
DefaultOptions ==
    [hasBody |-> FALSE, footer |-> EmptyFooter, showCloseButton |-> TRUE,
     backdrop |-> TRUE, target |-> NoTarget, showArrow |-> TRUE,
     blockTargetClick |-> FALSE, step |-> 0]

OptionSpace ==
    [hasBody : BOOLEAN, footer : {EmptyFooter, PromptFooter},
     showCloseButton : BOOLEAN, backdrop : BOOLEAN,
     target : Selectors \cup {NoTarget}, showArrow : BOOLEAN,
     blockTargetClick : BOOLEAN, step : {0}]

VARIABLES
    nModals,            \* number of Modal instances constructed so far
    options,            \* Modal.options
    isVisible,          \* Modal.isVisible
    targetElement,      \* Modal.targetElement
    arrowElement,       \* Modal.arrowElement exists (and is in modalElement)
    cleanUpdateHandler, \* Modal.cleanUpdateHandler is defined
    timers,             \* pending 200 ms detach timers of the instance
    pendingPosition,    \* positionModal calls suspended at computePosition
    bodyChildren,       \* hosts attached to document.body, in document order
    classList,          \* target elements' classes
    stylePE,            \* target elements' inline pointer-events
    attrPE,             \* target elements' data-original-pointer-events
    parentBF,           \* inline backdrop-filter of the target's parent
    origPE,             \* inline pointer-events the host page had set
    geom,               \* current window layout
    activeModal,        \* tutorial.ts activeModal
    targetResizeHandler,\* tutorial.ts targetResizeHandler (by its modal)
    resizeListeners,    \* window "resize" listeners (by their modal)
    anchor,             \* rectangle of the anchor (top, left, width, height)
    modalBox,           \* modalElement's offsetWidth / offsetHeight, arrow or not
    virtualRect,        \* what the virtual anchor's getBoundingClientRect() returned
    modalStyle,         \* modalElement.style.top / left, once positionModal set them
    webModal,           \* the AnkiHubModal instance of modal.js
    effect,             \* the TutorialEffect sequencer and the page it acts on
    fsrs,               \* the FSRS parameters textarea and its listener
    buttons,            \* the AnkiHubReviewerButtons instance and its buttons
    ai,                 \* the AnkiHubAI instance and its iframe
    error,              \* a TypeError was raised
    out,                \* bridge commands sent by the last step
    closedSent,         \* ankihub_modal_closed commands sent per instance
    last                \* the last operation performed

modalVars == <<nModals, options, isVisible, targetElement, arrowElement,
               cleanUpdateHandler, timers, pendingPosition>>
domVars   == <<bodyChildren, classList, stylePE, attrPE, parentBF, origPE, geom>>
seqVars   == <<activeModal, targetResizeHandler, resizeListeners>>
posVars   == <<anchor, modalBox, virtualRect, modalStyle>>
tutorialVars == <<modalVars, domVars, seqVars, posVars, error, closedSent>>
otherVars == <<webModal, effect, fsrs, buttons, ai>>
vars      == <<tutorialVars, otherVars, out, last>>

\* the mutable world the handlers act on, as one record
World ==
    [nModals |-> nModals, options |-> options, isVisible |-> isVisible,
     targetElement |-> targetElement, arrowElement |-> arrowElement,
     cleanUpdateHandler |-> cleanUpdateHandler, timers |-> timers,
     pendingPosition |-> pendingPosition,
     bodyChildren |-> bodyChildren, classList |-> classList,
     stylePE |-> stylePE, attrPE |-> attrPE, parentBF |-> parentBF,
     activeModal |-> activeModal, targetResizeHandler |-> targetResizeHandler,
     resizeListeners |-> resizeListeners, error |-> error, out |-> <<>>,
     closedSent |-> closedSent]

\* bridgeCommand(c)
BridgeCommand(W, c) == [W EXCEPT !.out = Append(@, c)]

\* node.parentNode.removeChild(node) / document.body.appendChild(node)
Attached(children, m) == \E i \in 1..Len(children) : children[i] = m
RemoveChild(children, m) == SelectSeq(children, LAMBDA x : x # m)
AppendChild(children, m) == Append(RemoveChild(children, m), m)

\* ------------------------------------------------- placement (floating-ui)
\* Lengths are whole CSS pixels. The sample rectangles have even sides, so
\* the halves taken by the placement arithmetic are whole numbers too.
ViewportWidth  == 1000     \* window.innerWidth
ViewportHeight == 800      \* window.innerHeight
ArrowWidth     == 20       \* .ah-modal-arrow { width: 20px }

\* the anchors: in the corners, on the edges and in the middle of the viewport
AnchorRects ==
    [top : {0, 380, 760}, left : {0, 450, 900}, width : {100}, height : {40}]

\* the overlay container: its size, and whether an arrow element is in it
ModalBoxes == [width : {300, 400}, height : {200, 300}, arrow : BOOLEAN]

\* Math.sqrt(n), to whole pixels
ISqrt(n) == CHOOSE r \in 0..n : r * r <= n /\ n < (r + 1) * (r + 1)

\* rectToClientRect
RectToClientRect(r) ==
    [width |-> r.width, height |-> r.height, top |-> r.y, left |-> r.x,
     right |-> r.x + r.width, bottom |-> r.y + r.height, x |-> r.x, y |-> r.y]

\* element.getBoundingClientRect() of a real element laid out at the rectangle
ElementRect(top, left, width, height) ==
    RectToClientRect([x |-> left, y |-> top, width |-> width, height |-> height])

\* the getBoundingClientRect() of setModalPosition's virtual element
VirtualRect(top, left, width, height) ==
    [x |-> 0, y |-> 0, top |-> top, left |-> left,
     bottom |-> height, right |-> width, width |-> width, height |-> height]

\* floating-ui's getBoundingClientRect(reference): it reads left, top, width
\* and height of the client rectangle (no scaling, no iframes)
GetBoundingClientRect(cr) ==
    RectToClientRect([width |-> cr.width, height |-> cr.height,
                      x |-> cr.left, y |-> cr.top])

\* platform.getElementRects: the reference relative to the overlay's offset
\* parent (the fixed backdrop at the viewport's origin), the floating element
\* by its offset size
GetElementRects(cr, box) ==
    LET r == GetBoundingClientRect(cr)
    IN [reference |-> [x |-> r.left, y |-> r.top,
                       width |-> r.width, height |-> r.height],
        floating  |-> [x |-> 0, y |-> 0,
                       width |-> box.width, height |-> box.height]]

\* platform.getClippingRect with rootBoundary "viewport": no ancestor of the
\* overlay clips, so the clipping rectangle is the viewport
ClippingRect ==
    [x |-> 0, y |-> 0, width |-> ViewportWidth, height |-> ViewportHeight]

\* the placements autoPlacement() tries when no alignment is given
Placements == <<"top", "right", "bottom", "left">>

OppositeSide(side) ==
    CASE side = "left" -> "right" [] side = "right" -> "left"
      [] side = "top" -> "bottom" [] side = "bottom" -> "top"

\* getSideAxis, getAlignmentAxis, getAxisLength
SideAxis(placement) == IF placement \in {"top", "bottom"} THEN "y" ELSE "x"
AlignmentAxis(placement) == IF SideAxis(placement) = "y" THEN "x" ELSE "y"
AxisLength(axis) == IF axis = "y" THEN "height" ELSE "width"

\* getAlignmentSides for a placement without alignment, left-to-right
GetAlignmentSides(placement, rects) ==
    LET axis == AlignmentAxis(placement)
        len  == AxisLength(axis)
        s0   == IF axis = "x" THEN "left" ELSE "top"
        s    == IF rects.reference[len] > rects.floating[len]
                THEN OppositeSide(s0) ELSE s0
    IN <<s, OppositeSide(s)>>

\* computeCoordsFromPlacement for a placement without alignment
ComputeCoordsFromPlacement(rects, placement) ==
    LET o == rects.reference
        i == rects.floating
        commonX == o.x + (o.width \div 2) - (i.width \div 2)
        commonY == o.y + (o.height \div 2) - (i.height \div 2)
    IN CASE placement = "top"    -> [x |-> commonX, y |-> o.y - i.height]
         [] placement = "bottom" -> [x |-> commonX, y |-> o.y + o.height]
         [] placement = "right"  -> [x |-> o.x + o.width, y |-> commonY]
         [] placement = "left"   -> [x |-> o.x - i.width, y |-> commonY]

\* detectOverflow: by how much the overlay at (x, y) sticks out of the
\* clipping rectangle on each side (negative when it is inside)
DetectOverflow(x, y, rects) ==
    LET clip == RectToClientRect(ClippingRect)
        el   == RectToClientRect([x |-> x, y |-> y,
                                  width |-> rects.floating.width,
                                  height |-> rects.floating.height])
    IN [top |-> clip.top - el.top, bottom |-> el.bottom - clip.bottom,
        left |-> clip.left - el.left, right |-> el.right - clip.right]

\* autoPlacement's record for one placement: the overflow on its own side and
\* on its two alignment sides
PlacementOverflows(rects, placement) ==
    LET c  == ComputeCoordsFromPlacement(rects, placement)
        ov == DetectOverflow(c.x, c.y, rects)
        al == GetAlignmentSides(placement, rects)
    IN <<ov[placement], ov[al[1]], ov[al[2]]>>

\* autoPlacement(): after every placement has been tried, the first that fits
\* on all three sides, in the order of a stable sort by main-side overflow;
\* the one with the least main-side overflow when none fits
AutoPlacement(rects) ==
    LET All == 1..Len(Placements)
        ov == [k \in All |-> PlacementOverflows(rects, Placements[k])]
        Fits == {k \in All : \A i \in 1..3 : ov[k][i] <= 0}
        Candidates == IF Fits # {} THEN Fits ELSE All
    IN Placements[CHOOSE k \in Candidates : \A j \in Candidates \ {k} :
                     ov[k][1] < ov[j][1] \/ (ov[k][1] = ov[j][1] /\ k < j)]

\* offset(value): along the main axis, away from the reference
Offset(c, placement, value) ==
    LET sign == IF placement \in {"left", "top"} THEN -1 ELSE 1
    IN IF SideAxis(placement) = "y"
       THEN [x |-> c.x, y |-> c.y + value * sign]
       ELSE [x |-> c.x + value * sign, y |-> c.y]

\* Math.sqrt(2 * arrowLength ** 2) / 2
FloatingOffset(arrowLength) == ISqrt(2 * arrowLength * arrowLength) \div 2

\* computePosition(target, modalElement, {middleware}) as positionModal calls
\* it: autoPlacement(), then offset() and arrow() when there is an arrow; the
\* arrow middleware leaves x and y of a placement without alignment alone
ComputePosition(cr, box) ==
    LET rects     == GetElementRects(cr, box)
        placement == AutoPlacement(rects)
        c         == ComputeCoordsFromPlacement(rects, placement)
        arrowLength == IF box.arrow THEN ArrowWidth ELSE 0
        d         == IF box.arrow
                     THEN Offset(c, placement, FloatingOffset(arrowLength))
                     ELSE c
    IN [x |-> d.x, y |-> d.y, placement |-> placement]

\* positionModal(target) run to its end: _positionModal(y, x)
PositionedStyle(cr, box) ==
    LET p == ComputePosition(cr, box) IN [top |-> p.y, left |-> p.x]

\* ------------------------------------------------------------ Modal methods
SpotlightClasses(o) ==
    IF o.backdrop THEN {"ah-spotlight-active", "ah-with-backdrop"}
    ELSE {"ah-spotlight-active"}

ApplySpotlight_NoNullGuard(W, m) ==
    IF W.targetElement[m] = NULL THEN [W EXCEPT !.error = TRUE]
    ELSE LET t == W.targetElement[m]
             W1 == [W EXCEPT !.classList[t] = @ \cup SpotlightClasses(W.options[m])]
             W2 == IF W.options[m].blockTargetClick
                   THEN [W1 EXCEPT !.attrPE[t] = W.stylePE[t], !.stylePE[t] = "none"]
                   ELSE W1
         IN [W2 EXCEPT !.parentBF[t] = "none"]

ApplySpotlight(W, m) ==
    IF W.targetElement[m] = NULL THEN W
    ELSE LET t == W.targetElement[m]
             W1 == [W EXCEPT !.classList[t] = @ \cup SpotlightClasses(W.options[m])]
             W2 == IF W.options[m].blockTargetClick
                   THEN [W1 EXCEPT !.attrPE[t] = W.stylePE[t], !.stylePE[t] = "none"]
                   ELSE W1
         IN [W2 EXCEPT !.parentBF[t] = "none"]

RemoveSpotlight_KeepsClasses(W, m) ==
    IF W.targetElement[m] = NULL THEN W
    ELSE LET t == W.targetElement[m]
             orig == W.attrPE[t]
         IN [W EXCEPT !.stylePE[t] = IF Truthy(orig) THEN orig ELSE "",
                      !.attrPE[t] = IF Truthy(orig) THEN NoAttr ELSE @,
                      !.targetElement[m] = NULL]

RemoveSpotlight_NoRestore(W, m) ==
    IF W.targetElement[m] = NULL THEN W
    ELSE LET t == W.targetElement[m]
         IN [W EXCEPT !.classList[t] = @ \ SpotlightClasses(W.options[m]),
                      !.attrPE[t] = NoAttr,
                      !.targetElement[m] = NULL]

RemoveSpotlight(W, m) ==
    IF W.targetElement[m] = NULL THEN W
    ELSE LET t == W.targetElement[m]
             orig == W.attrPE[t]
         IN [W EXCEPT !.classList[t] = @ \ SpotlightClasses(W.options[m]),
                      !.stylePE[t] = IF Truthy(orig) THEN orig ELSE "",
                      !.attrPE[t] = IF Truthy(orig) THEN NoAttr ELSE @,
                      !.targetElement[m] = NULL]

\* createArrow()
CreateArrow(W, m) ==
    IF W.options[m].showArrow THEN [W EXCEPT !.arrowElement[m] = TRUE] ELSE W

\* positionModal(target): runs up to the awaited computePosition and suspends;
\* the suspended call remembers whether the arrow middleware was installed
PositionModal(W, m) ==
    [W EXCEPT !.pendingPosition[m] = @ \cup {W.arrowElement[m]}]

\* the arrow is detached and forgotten (close() and destroy())
RemoveArrow(W, m) ==
    IF W.arrowElement[m] THEN [W EXCEPT !.arrowElement[m] = FALSE] ELSE W

Show_NoVisibleGuard(W, m) ==
    LET W1 == [W EXCEPT !.bodyChildren = AppendChild(@, m)]
        W2 == IF W.options[m].target # NoTarget
              THEN ApplySpotlight(
                     [W1 EXCEPT !.targetElement[m] = QuerySelector(W.options[m].target)], m)
              ELSE W1
        W3 == CreateArrow(W2, m)
        W4 == IF W3.targetElement[m] # NULL THEN PositionModal(W3, m) ELSE W3
    IN [W4 EXCEPT !.isVisible[m] = TRUE]

\* show(); the backdrop's fade classes (ah-modal-show / ah-modal-hide) only
\* drive the CSS transition and are left out
Show(W, m) ==
    IF W.isVisible[m] THEN W
    ELSE
    LET W1 == [W EXCEPT !.bodyChildren = AppendChild(@, m)]
        W2 == IF W.options[m].target # NoTarget
              THEN ApplySpotlight(
                     [W1 EXCEPT !.targetElement[m] = QuerySelector(W.options[m].target)], m)
              ELSE W1
        W3 == CreateArrow(W2, m)
        W4 == IF W3.targetElement[m] # NULL THEN PositionModal(W3, m) ELSE W3
    IN [W4 EXCEPT !.isVisible[m] = TRUE]

Close_NoDetach(W, m) ==
    IF ~W.isVisible[m] THEN W
    ELSE
    LET W1 == RemoveSpotlight(W, m)
        W2 == RemoveArrow(W1, m)
    IN [W2 EXCEPT !.isVisible[m] = FALSE]

\* close(); cleanUpdateHandler?.() releases the auto-update, if one exists,
\* and the setTimeout callback is FireDetachTimer
Close(W, m) ==
    IF ~W.isVisible[m] THEN W
    ELSE
    LET W1 == RemoveSpotlight(W, m)
        W2 == RemoveArrow(W1, m)
    IN [W2 EXCEPT !.timers[m] = @ + 1, !.isVisible[m] = FALSE]

Destroy_NoClose(W, m) ==
    RemoveArrow(RemoveSpotlight(W, m), m)

\* destroy(); resizeTimeout is never set by this class, so clearing it
\* does nothing
Destroy(W, m) ==
    RemoveArrow(RemoveSpotlight(Close(W, m), m), m)

\* new Modal(opts): createModal() and bindEvents(); nothing is attached yet
NewModal(W, opts) ==
    LET m == W.nModals + 1
    IN [W EXCEPT !.nModals = m,
                 !.options[m] = opts,
                 !.cleanUpdateHandler[m] = opts.hasBody /\ W.targetElement[m] # NULL]

\* the close button is in the document, and no later overlay's backdrop
\* (full-screen, pointer-events: auto) lies over it
CloseButtonClickable(m) ==
    /\ m <= nModals
    /\ options[m].showCloseButton
    /\ options[m].hasBody
    /\ Len(bodyChildren) > 0
    /\ bodyChildren[Len(bodyChildren)] = m

CloseButtonHandler_OnlyWhenVisible(W, m) ==
    IF ~W.isVisible[m] THEN W
    ELSE LET W1 == BridgeCommand(Close(W, m), Cmd("ankihub_modal_closed"))
         IN [W1 EXCEPT !.closedSent[m] = @ + 1]

\* the close button's click listener
CloseButtonHandler(W, m) ==
    LET W1 == BridgeCommand(Close(W, m), Cmd("ankihub_modal_closed"))
    IN [W1 EXCEPT !.closedSent[m] = @ + 1]

\* -------------------------------------------------------- tutorial sequencer
DestroyActiveTutorialModal_NoDestroy(W) ==
    IF W.activeModal # NoModal
    THEN [W EXCEPT !.activeModal = NoModal]
    ELSE W

DestroyActiveTutorialModal(W) ==
    IF W.activeModal # NoModal
    THEN [Destroy(W, W.activeModal) EXCEPT !.activeModal = NoModal]
    ELSE W

\* const modal = new Modal(opts); modal.show(); activeModal = modal
ConstructShowActivate(W, opts) ==
    LET W1 == NewModal(W, opts)
        W2 == Show(W1, W1.nModals)
    IN [W2 EXCEPT !.activeModal = W1.nModals]

PromptForOnboardingTour(W) ==
    ConstructShowActivate(DestroyActiveTutorialModal(W),
        [DefaultOptions EXCEPT !.hasBody = TRUE, !.footer = PromptFooter])

ShowTutorialModal_ConstructFirst(W, a, target, block, backdrop) ==
    LET old == W.activeModal
        W1  == NewModal(W,
                 [DefaultOptions EXCEPT !.hasBody = TRUE, !.footer = StepFooter(a),
                                        !.target = target, !.blockTargetClick = block,
                                        !.backdrop = backdrop])
        W2  == Show(W1, W1.nModals)
        W3  == IF old # NoModal THEN Destroy(W2, old) ELSE W2
    IN [W3 EXCEPT !.activeModal = W1.nModals]

ShowTutorialModal(W, a, target, block, backdrop) ==
    ConstructShowActivate(DestroyActiveTutorialModal(W),
        [DefaultOptions EXCEPT !.hasBody = TRUE, !.footer = StepFooter(a),
                               !.target = target, !.blockTargetClick = block,
                               !.backdrop = backdrop])

\* the closure installed by highlightTutorialTarget for modal h
TargetResizeHandler_Once(W, h, g) ==
    IF W.targetElement[h] = NULL THEN W
    ELSE [BridgeCommand(W, ResizeCmd(W.options[h].step, BoundingRect(W.targetElement[h], g)))
            EXCEPT !.resizeListeners = @ \ {h}]

TargetResizeHandler(W, h, g) ==
    IF W.targetElement[h] = NULL THEN W
    ELSE BridgeCommand(W, ResizeCmd(W.options[h].step, BoundingRect(W.targetElement[h], g)))

HighlightTutorialTarget(W, target, step, block, g) ==
    LET W1 == ConstructShowActivate(DestroyActiveTutorialModal(W),
                  [DefaultOptions EXCEPT !.step = step, !.target = target,
                                         !.blockTargetClick = block])
        m  == W1.activeModal
        W2 == IF W1.targetResizeHandler # NoModal
              THEN [W1 EXCEPT !.resizeListeners = @ \ {W1.targetResizeHandler},
                              !.targetResizeHandler = NoModal]
              ELSE W1
        W3 == [W2 EXCEPT !.targetResizeHandler = m, !.resizeListeners = @ \cup {m}]
    IN TargetResizeHandler(W3, m, g)

PositionTutorialTarget(W) ==
    IF W.activeModal # NoModal THEN PositionModal(W, W.activeModal) ELSE W

AddTutorialBackdrop(W) ==
    ConstructShowActivate(DestroyActiveTutorialModal(W), DefaultOptions)

\* window "resize" event: every registered listener runs, in registration order
RECURSIVE DispatchResize(_, _, _)
DispatchResize(W, hs, g) ==
    IF hs = {} THEN W
    ELSE LET h == CHOOSE x \in hs : \A y \in hs : x <= y
         IN DispatchResize(TargetResizeHandler(W, h, g), hs \ {h}, g)

\* the 200 ms detach timer of close()
DetachTimer(W, m) ==
    [W EXCEPT !.bodyChildren = RemoveChild(@, m), !.timers[m] = @ - 1]

\* positionModal resumes after the awaited computePosition
ResumePositionModal(W, m, hadArrow) ==
    LET W1 == [W EXCEPT !.pendingPosition[m] = @ \ {hadArrow}]
    IN IF hadArrow /\ ~W.arrowElement[m] THEN [W1 EXCEPT !.error = TRUE] ELSE W1

\* the microtask checkpoint at the end of a task: every suspended
\* positionModal resumes before the next event, timer or host call runs
RECURSIVE DrainMicrotasks(_)
DrainMicrotasks(W) ==
    IF \A m \in ModalIds : W.pendingPosition[m] = {} THEN W
    ELSE LET m == CHOOSE x \in ModalIds : W.pendingPosition[x] # {}
             a == CHOOSE x \in W.pendingPosition[m] : TRUE
         IN DrainMicrotasks(ResumePositionModal(W, m, a))

\* a synchronous call returned: its result becomes the next state, and the
\* positionModal calls it started stay suspended
CommitSync(W) ==
    /\ nModals' = W.nModals
    /\ pendingPosition' = W.pendingPosition
    /\ options' = W.options
    /\ isVisible' = W.isVisible
    /\ targetElement' = W.targetElement
    /\ arrowElement' = W.arrowElement
    /\ cleanUpdateHandler' = W.cleanUpdateHandler
    /\ timers' = W.timers
    /\ bodyChildren' = W.bodyChildren
    /\ classList' = W.classList
    /\ stylePE' = W.stylePE
    /\ attrPE' = W.attrPE
    /\ parentBF' = W.parentBF
    /\ activeModal' = W.activeModal
    /\ targetResizeHandler' = W.targetResizeHandler
    /\ resizeListeners' = W.resizeListeners
    /\ error' = W.error
    /\ out' = W.out
    /\ closedSent' = W.closedSent

\* one task ran to completion: the microtask checkpoint follows it
Commit(V) == CommitSync(DrainMicrotasks(V))

\* no positionModal call is suspended: the current task has ended
NoPending == \A m \in ModalIds : pendingPosition[m] = {}

\* ------------------------------------------------------------------ states
\* the inline backdrop-filter the host page had set on an element's parent
HostParentBF(e) == IF e = "e1" THEN "blur(20px)" ELSE ""

InitCommon ==
    /\ isVisible = [m \in ModalIds |-> FALSE]
    /\ targetElement = [m \in ModalIds |-> NULL]
    /\ arrowElement = [m \in ModalIds |-> FALSE]
    /\ cleanUpdateHandler = [m \in ModalIds |-> FALSE]
    /\ timers = [m \in ModalIds |-> 0]
    /\ pendingPosition = [m \in ModalIds |-> {}]
    /\ bodyChildren = <<>>
    /\ classList = [e \in Elements |-> {}]
    /\ origPE \in {f \in [Elements -> PEValues] : f["e2"] = ""}
    /\ stylePE = origPE
    /\ attrPE = [e \in Elements |-> NoAttr]
    /\ parentBF = [e \in Elements |-> HostParentBF(e)]
    /\ geom = 1
    /\ activeModal = NoModal
    /\ targetResizeHandler = NoModal
    /\ resizeListeners = {}
    /\ error = FALSE
    /\ out = <<>>
    /\ closedSent = [m \in ModalIds |-> 0]
    /\ last = [op |-> "init", m |-> NoModal]

\* ---------------------------------------------- AnkiHubModal (modal.js)
WebMargin == 10     \* distance kept from the target and from the viewport edges

WebPositions == {"top", "bottom", "left", "right"}

\* window sizes: a regular window and a small one
WebViewports == {[width |-> 1000, height |-> 800],
                 [width |-> 304, height |-> 180]}

\* target rectangles that lie inside the viewport
WebRectsIn(vp) ==
    {r \in AnchorRects : /\ r.left + r.width <= vp.width
                         /\ r.top + r.height <= vp.height}

\* sizes of .ah-modal-container: min-width 300px, max-width 90vw (the
\* minimum wins), max-height 90vh
WebBoxesIn(vp) ==
    {b \in [width : {300, 900}, height : {162, 720}] :
        /\ b.width <= (IF (9 * vp.width) \div 10 >= 300
                       THEN (9 * vp.width) \div 10 ELSE 300)
        /\ b.height <= (9 * vp.height) \div 10}

Max(a, b) == IF a >= b THEN a ELSE b
Min(a, b) == IF a <= b THEN a ELSE b

\* new AnkiHubModal({target, position, closeOnBackdropClick, ...}) in a
\* page where the target is laid out at rect and the overlay measures box
NewWebModal(hasTarget, position, backdropCloses, vp, rect, box) ==
    [hasTarget |-> hasTarget, position |-> position,
     closeOnBackdropClick |-> backdropCloses,
     innerWidth |-> vp.width, innerHeight |-> vp.height,
     targetRect |-> rect, box |-> box,
     isVisible |-> FALSE, targetElement |-> FALSE, arrowElement |-> FALSE,
     spotlit |-> FALSE, attached |-> FALSE, detachTimers |-> 0,
     resizeListener |-> TRUE, resizeTimeout |-> FALSE,
     style |-> <<>>, error |-> FALSE]

\* the page without an AnkiHubModal at work
WebModalIdle ==
    NewWebModal(FALSE, "top", FALSE, [width |-> 1000, height |-> 800],
                [top |-> 380, left |-> 450, width |-> 100, height |-> 40],
                [width |-> 300, height |-> 200])

\* Math.max(10, Math.min(v, viewport - size - 10))
FinalCoord(v, viewport, size) ==
    Max(WebMargin, Min(v, viewport - size - WebMargin))

\* the top / left positionModal computes for options.position, before the
\* clamp; the sample rectangles have even sides
WebPlacement(position, t, box) ==
    LET centredLeft == t.left + ((t.width - box.width) \div 2)
        centredTop  == t.top + ((t.height - box.height) \div 2)
    IN CASE position = "top" ->
              [top |-> t.top - box.height - WebMargin, left |-> centredLeft]
         [] position = "bottom" ->
              [top |-> t.bottom + WebMargin, left |-> centredLeft]
         [] position = "left" ->
              [top |-> centredTop, left |-> t.left - box.width - WebMargin]
         [] position = "right" ->
              [top |-> centredTop, left |-> t.right + WebMargin]

\* _positionModal(top, left, transform): style.top is top + 10
WebApplyPosition(w, top, left) ==
    [w EXCEPT !.style = <<[top |-> top + WebMargin, left |-> left]>>]

\* positionModal(): reading the rectangle of a null targetElement throws
WebPositionModal(w) ==
    IF ~w.hasTarget THEN w
    ELSE IF ~w.targetElement THEN [w EXCEPT !.error = TRUE]
    ELSE LET t == ElementRect(w.targetRect.top, w.targetRect.left,
                              w.targetRect.width, w.targetRect.height)
             p == WebPlacement(w.position, t, w.box)
         IN WebApplyPosition(w,
                FinalCoord(p.top, w.innerHeight, w.box.height),
                FinalCoord(p.left, w.innerWidth, w.box.width))

\* removeSpotlight()
WebRemoveSpotlight(w) ==
    IF ~w.targetElement THEN w
    ELSE [w EXCEPT !.spotlit = FALSE, !.targetElement = FALSE]

\* show(); the target selector matches an element of the page
WebShow(w) ==
    IF w.isVisible THEN w
    ELSE LET w1 == [w EXCEPT !.attached = TRUE]
             w2 == IF w.hasTarget
                   THEN [w1 EXCEPT !.targetElement = TRUE, !.spotlit = TRUE]
                   ELSE w1
             w3 == [w2 EXCEPT !.arrowElement = TRUE]
         IN [WebPositionModal(w3) EXCEPT !.isVisible = TRUE]

\* close(): the pending reposition timer is left alone
WebClose(w) ==
    IF ~w.isVisible THEN w
    ELSE [WebRemoveSpotlight(w) EXCEPT !.arrowElement = FALSE,
                                       !.detachTimers = @ + 1,
                                       !.isVisible = FALSE]

\* destroy()
WebDestroy(w) ==
    LET w1 == [WebClose(w) EXCEPT !.resizeListener = FALSE]
        w2 == WebRemoveSpotlight(w1)
    IN [w2 EXCEPT !.resizeTimeout = FALSE, !.arrowElement = FALSE]

\* resizeHandler: re-arms the 16 ms timer while the overlay is visible
WebResizeHandler(w) ==
    IF w.isVisible THEN [w EXCEPT !.resizeTimeout = TRUE] ELSE w

\* the 16 ms timer's callback: positionModal(); updateArrowPosition()
WebResizeTimeout(w) ==
    WebPositionModal([w EXCEPT !.resizeTimeout = FALSE])

\* the 200 ms timer's callback
WebDetachTimer(w) ==
    [w EXCEPT !.attached = FALSE, !.detachTimers = @ - 1]

\* ------------------------------------- TutorialEffect and its sequencer
\* The page has one element, e1, that target and clickTarget selectors may
\* match.  The placement of the step element is the arithmetic of
\* SpecPosition and is not repeated here.
ClickSelectors == {"", "#e1", "#missing"}
OnclickValues  == {NoAttr, "", "go()"}

TargetClick == Cmd("ankihub_tutorial_target_click")

\* the page before any effect, the target carrying onclick attribute v
EffectIdle(v) ==
    [active |-> FALSE, kind |-> "", error |-> FALSE,
     hasModal |-> FALSE, hasBackdrop |-> FALSE, blockTargetClick |-> FALSE,
     targetElement |-> NULL, clickTargetElement |-> NULL,
     autoUpdate |-> FALSE, hostAttached |-> FALSE,
     spotlit |-> FALSE, withBackdrop |-> FALSE,
     stylePE |-> "", attrPE |-> NoAttr, parentBF |-> "blur(20px)",
     origOnclick |-> v, onclick |-> v, dataOnclick |-> NoAttr,
     clickListener |-> FALSE, onclickRan |-> FALSE,
     handlerStep |-> 0, handlerTarget |-> NULL, resizeHandlers |-> 0,
     geom |-> 1]

\* options of a TutorialEffect; modal and backdrop are HTML strings, of
\* which only the truthiness matters
EffectOptions(modal, backdrop, target, block, clickTarget) ==
    [modal |-> modal, backdrop |-> backdrop, target |-> target,
     blockTargetClick |-> block, clickTarget |-> clickTarget]

\* autoUpdate(null, ...) reads null.contextElement: create() throws when a
\* modal is given and the target selector matches nothing
EffectCreateThrows(o) ==
    o.target # NoTarget /\ QuerySelector(o.target) = NULL /\ o.modal

\* TutorialEffect.create(): the fields of the new effect and what it does
\* to the click target
EffectCreate(f, o) ==
    LET t  == IF o.target # NoTarget THEN QuerySelector(o.target) ELSE NULL
        c  == IF o.target # NoTarget /\ o.clickTarget # ""
              THEN QuerySelector(o.clickTarget) ELSE NULL
        f1 == [f EXCEPT !.hasModal = o.modal, !.hasBackdrop = o.backdrop,
                        !.blockTargetClick = o.blockTargetClick,
                        !.targetElement = t, !.clickTargetElement = c,
                        !.autoUpdate = (o.target # NoTarget /\ o.modal)]
    IN IF c = NULL THEN f1
       ELSE [f1 EXCEPT !.clickListener = TRUE,
                       !.dataOnclick = IF f.onclick = NoAttr THEN ""
                                       ELSE f.onclick,
                       !.onclick = NoAttr]

\* TutorialEffect.applySpotlight()
EffectApplySpotlight(f) ==
    IF f.targetElement = NULL THEN f
    ELSE LET f1 == [f EXCEPT !.spotlit = TRUE,
                             !.withBackdrop = (f.hasBackdrop \/ f.hasModal),
                             !.parentBF = "none"]
         IN IF f.blockTargetClick
            THEN [f1 EXCEPT !.stylePE = "none", !.attrPE = f.stylePE]
            ELSE f1

\* TutorialEffect.removeSpotlight(): targetElement stays set
EffectRemoveSpotlight(f) ==
    IF f.targetElement = NULL THEN f
    ELSE LET f1 == [f EXCEPT !.spotlit = FALSE, !.withBackdrop = FALSE]
         IN IF Truthy(f.attrPE)
            THEN [f1 EXCEPT !.stylePE = f.attrPE, !.attrPE = NoAttr]
            ELSE [f1 EXCEPT !.stylePE = ""]

\* TutorialEffect.show()
EffectShow(f) ==
    EffectApplySpotlight([f EXCEPT !.hostAttached = TRUE])

\* TutorialEffect.destroy()
EffectDestroy(f) ==
    LET f1 == [f EXCEPT !.autoUpdate = FALSE]
        f2 == IF f.clickTargetElement = NULL THEN f1
              ELSE [f1 EXCEPT !.clickListener = FALSE,
                              !.onclick = IF f.dataOnclick = NoAttr THEN ""
                                          ELSE f.dataOnclick,
                              !.dataOnclick = NoAttr]
    IN [EffectRemoveSpotlight(f2) EXCEPT !.hostAttached = FALSE]

\* destroyActiveTutorialEffect()
DestroyActiveTutorialEffect(f) ==
    IF f.active THEN [EffectDestroy(f) EXCEPT !.active = FALSE, !.kind = ""]
    ELSE f

\* createAndShowEffect(options), called by the entry point of the given kind
CreateAndShowEffect(f, o, kind) ==
    LET f1 == DestroyActiveTutorialEffect(f) IN
    IF EffectCreateThrows(o) THEN [f1 EXCEPT !.error = TRUE]
    ELSE [EffectShow(EffectCreate(f1, o)) EXCEPT !.active = TRUE,
                                                 !.kind = kind]

\* the commands one call of the sequencer's targetResizeHandler sends
EffectResizeHandler(f) ==
    IF f.handlerTarget = NULL THEN <<>>
    ELSE <<ResizeCmd(f.handlerStep, BoundingRect(f.handlerTarget, f.geom))>>

\* highlightTutorialTarget(): the part after createAndShowEffect
EffectHighlight(f, target, step, block, backdrop) ==
    LET f1 == CreateAndShowEffect(f,
                  EffectOptions(FALSE, backdrop, target, block, ""),
                  "highlightTutorialTarget")
        f2 == IF f1.handlerStep # 0
              THEN [f1 EXCEPT !.resizeHandlers = @ - 1, !.handlerStep = 0,
                              !.handlerTarget = NULL]
              ELSE f1
    IN [f2 EXCEPT !.handlerStep = step, !.handlerTarget = f1.targetElement,
                  !.resizeHandlers = @ + 1]

\* ----------------------------------- FSRS parameters textarea listener
DEBOUNCE_MS == 400

\* time passes in steps of half the debounce delay
TickMs == DEBOUNCE_MS \div 2

\* the textarea's value is a sequence of characters
Chars      == {" ", ",", "1", "x"}
TextValues == UNION {[1..n -> Chars] : n \in 0..MaxText}

IsSpace(c) == c = " "

RECURSIVE TrimStart(_)
TrimStart(s) ==
    IF s # <<>> /\ IsSpace(Head(s)) THEN TrimStart(Tail(s)) ELSE s

RECURSIVE TrimEnd(_)
TrimEnd(s) ==
    IF s # <<>> /\ IsSpace(s[Len(s)]) THEN TrimEnd(SubSeq(s, 1, Len(s) - 1))
    ELSE s

\* String.prototype.trim()
Trim(s) == TrimEnd(TrimStart(s))

\* current.split(/[,\s]+/).filter(str => str.length); cur is the piece
\* being read
RECURSIVE SplitFilter(_, _)
SplitFilter(s, cur) ==
    LET piece == IF cur = <<>> THEN <<>> ELSE <<cur>> IN
    IF s = <<>> THEN piece
    ELSE IF Head(s) \in {" ", ","} THEN piece \o SplitFilter(Tail(s), <<>>)
    ELSE SplitFilter(Tail(s), Append(cur, Head(s)))

NaN == -1

\* Number(str) of a non-empty piece: its value when all characters are
\* digits, NaN otherwise
RECURSIVE NumberOf(_, _)
NumberOf(str, acc) ==
    IF str = <<>> THEN acc
    ELSE IF Head(str) = "1" THEN NumberOf(Tail(str), 10 * acc + 1)
    ELSE NaN

\* .map(Number).filter(n => !isNaN(n))
RECURSIVE NumericList(_)
NumericList(pieces) ==
    IF pieces = <<>> THEN <<>>
    ELSE LET n == NumberOf(Head(pieces), 0) IN
         (IF n = NaN THEN <<>> ELSE <<n>>) \o NumericList(Tail(pieces))

\* pycmd(`ankihub_fsrs_parameters_changed ${payload}`)
FsrsChanged(current) ==
    [cmd |-> "ankihub_fsrs_parameters_changed",
     payload |-> NumericList(SplitFilter(current, <<>>))]

\* the page before setupTextAreaListener, the textarea holding v.  timers
\* holds the age of every pending timeout, oldest first: when the timeout
\* that debounceId names is pending it is the last one;
\* sinceEvent is the time since the last input or fsrsParamsUpdated event;
\* lastSent holds the trimmed value of the last command, repeated whether
\* a command ever carried the same trimmed value as the one before it;
\* cmds holds the commands of the step being taken.
FsrsPage(v) ==
    [ready |-> FALSE, value |-> v, lastValue |-> <<>>,
     timers |-> <<>>, sinceEvent |-> 0,
     lastSent |-> <<>>, repeated |-> FALSE, cmds |-> <<>>]

\* processChange(force)
ProcessChange(f, force) ==
    LET current == Trim(f.value) IN
    IF ~force /\ current = f.lastValue THEN f
    ELSE [f EXCEPT !.lastValue = current,
                   !.cmds = Append(@, FsrsChanged(current)),
                   !.repeated = @ \/ f.lastSent = <<current>>,
                   !.lastSent = <<current>>]

\* onChange: if (debounceId) clearTimeout(debounceId); debounceId =
\* setTimeout(processChange, DEBOUNCE_MS).  clearTimeout of a timer that
\* has fired does nothing.
OnChange_NoClear(f) ==
    [f EXCEPT !.timers = Append(@, 0)]

OnChange(f) ==
    [f EXCEPT !.timers = Append(IF @ = <<>> THEN <<>>
                                ELSE SubSeq(@, 1, Len(@) - 1), 0)]

\* setupTextAreaListener(textarea)
SetupTextAreaListener(f) ==
    ProcessChange([f EXCEPT !.ready = TRUE, !.lastValue = f.value], TRUE)

\* ------------------------------------------------ AnkiHubReviewerButtons
ButtonNames == <<"b&b", "fa4", "chatbot">>
ButtonSet   == {ButtonNames[i] : i \in 1..Len(ButtonNames)}
Themes      == {"light", "dark"}

\* pycmd(`ankihub_reviewer_button_toggled ${args}`)
ButtonToggled(name, active) ==
    [cmd |-> "ankihub_reviewer_button_toggled",
     buttonName |-> name, isActive |-> active]

ColorButton(theme) == IF theme = "light" THEN "#F9FAFB" ELSE "#030712"
ColorButtonSelected(theme) == IF theme = "light" THEN "#C7D2FE" ELSE "#3730A3"

\* new AnkiHubReviewerButtons() under the given theme; cmds holds the
\* commands of the step being taken, prevActive the flags before it
NewReviewerButtons(theme) ==
    [theme |-> theme,
     active |-> [n \in ButtonSet |-> FALSE],
     prevActive |-> [n \in ButtonSet |-> FALSE],
     backgroundColor |-> [n \in ButtonSet |-> ColorButton(theme)],
     display |-> [n \in ButtonSet |-> ""],
     isAnKingDeck |-> "null",
     cmds |-> <<>>]

\* setButtonState(buttonData, buttonElement, active)
SetButtonState(b, name, active) ==
    [b EXCEPT !.active[name] = active,
              !.backgroundColor[name] =
                  IF active THEN ColorButtonSelected(b.theme)
                  ELSE ColorButton(b.theme),
              !.cmds = Append(@, ButtonToggled(name, active))]

\* for (const buttonData of this.buttonsData) if (buttonData.active)
\* setButtonState(buttonData, element, false), from the i-th entry on
RECURSIVE DeactivateFrom(_, _)
DeactivateFrom(b, i) ==
    IF i > Len(ButtonNames) THEN b
    ELSE DeactivateFrom(IF b.active[ButtonNames[i]]
                        THEN SetButtonState(b, ButtonNames[i], FALSE)
                        ELSE b, i + 1)

\* unselectAllButtons()
UnselectAllButtons(b) == DeactivateFrom(b, 1)

\* setButtonStateByName(buttonName, active)
SetButtonStateByName(b, name, active) ==
    IF name \notin ButtonSet THEN b ELSE SetButtonState(b, name, active)

\* buttonElement.onclick of the button called name
ButtonOnclick(b, name) ==
    LET b1 == IF ~b.active[name] THEN DeactivateFrom(b, 1) ELSE b
    IN SetButtonState(b1, name, ~b1.active[name])

\* updateButtons(bbCount, faCount, isAnKingDeck): which buttons are shown
UpdateButtons(b, isAnKingDeck) ==
    [b EXCEPT !.isAnKingDeck = IF isAnKingDeck THEN "true" ELSE "false",
              !.display = [n \in ButtonSet |->
                             IF isAnKingDeck \/ n = "chatbot" THEN "block"
                             ELSE "none"]]

\* ------------------------------------------------------------ AnkiHubAI
NoNote  == 0                \* a note id that is null
NoteIds == {1, 2}
Tokens  == {"", "token"}    \* what the template and setToken may pass
NoSrc   == [url |-> "", note |-> NoNote]

\* new AnkiHubAI() rendered with the given KNOX_TOKEN.  The last four
\* fields record the history: whether no src was assigned since
\* construction or the last invalidation, what the step being taken
\* assigned to iframe.src and in which state, and its commands.
NewAnkiHubAI(token) ==
    [noteIdOfReviewerCard |-> NoNote, noteIdOfChatbot |-> NoNote,
     authenticated |-> FALSE, knoxToken |-> token, iframeVisible |-> FALSE,
     src |-> NoSrc,
     fresh |-> TRUE,
     assigned |-> "", assignedFresh |-> FALSE, assignedEqual |-> FALSE,
     cmds |-> <<>>]

\* invalidateSessionAndPromptToLogin()
InvalidateSessionAndPromptToLogin(a) ==
    [a EXCEPT !.authenticated = FALSE, !.knoxToken = NULL,
              !.noteIdOfChatbot = NoNote, !.fresh = TRUE,
              !.cmds = Append(@, Cmd("ankihub_ai_invalid_auth_token"))]

ShowIframe(a) == [a EXCEPT !.iframeVisible = TRUE]
HideIframe(a) == [a EXCEPT !.iframeVisible = FALSE]

\* iframe.src = url, for the given note
AssignSrc(a, url) ==
    [a EXCEPT !.src = [url |-> url, note |-> a.noteIdOfReviewerCard],
              !.assigned = url, !.assignedFresh = a.fresh,
              !.assignedEqual = (a.noteIdOfChatbot = a.noteIdOfReviewerCard),
              !.fresh = FALSE]

\* maybeUpdateIframeSrc()
MaybeUpdateIframeSrc(a) ==
    IF a.noteIdOfChatbot = a.noteIdOfReviewerCard THEN a
    ELSE [(IF ~a.authenticated
           THEN [AssignSrc(a, "embedded-auth") EXCEPT !.authenticated = TRUE]
           ELSE AssignSrc(a, "endpoint"))
            EXCEPT !.noteIdOfChatbot = a.noteIdOfReviewerCard]

\* button.onclick; null and "" are falsy tokens
ToggleButtonOnclick(a) ==
    IF a.knoxToken \in {"", NULL} THEN InvalidateSessionAndPromptToLogin(a)
    ELSE IF ~a.iframeVisible THEN ShowIframe(MaybeUpdateIframeSrc(a))
    ELSE HideIframe(a)

\* cardChanged(noteId)
CardChanged(a, noteId) ==
    LET a1 == [a EXCEPT !.noteIdOfReviewerCard = noteId] IN
    IF a1.iframeVisible THEN MaybeUpdateIframeSrc(a1) ELSE a1

\* setToken(token)
SetToken(a, token) == [a EXCEPT !.knoxToken = token]

\* the window's message listener; data is the string "Authentication
\* failed" or an object with sendToPython set
MessageListener(a, fromApp, data) ==
    IF ~fromApp THEN a
    ELSE IF data = "Authentication failed"
    THEN InvalidateSessionAndPromptToLogin(HideIframe(a))
    ELSE [a EXCEPT !.cmds = Append(@, Cmd("relayed"))]

\* the programs of the other pages at rest
InitOthers ==
    /\ webModal = WebModalIdle
    /\ effect = EffectIdle(NoAttr)
    /\ fsrs = FsrsPage(<<>>)
    /\ buttons = NewReviewerButtons("light")
    /\ ai = NewAnkiHubAI("")

\* the overlay's geometry where the placement arithmetic is not looked at
InitGeometry ==
    /\ anchor = [top |-> 380, left |-> 450, width |-> 100, height |-> 40]
    /\ modalBox = [width |-> 300, height |-> 200, arrow |-> TRUE]
    /\ virtualRect = <<>>
    /\ modalStyle = <<>>

Init ==
    /\ InitCommon
    /\ InitGeometry
    /\ InitOthers
    /\ nModals = 0
    /\ options = [m \in ModalIds |-> DefaultOptions]

\* one Modal has been constructed with some options
InitModal ==
    /\ InitCommon
    /\ InitGeometry
    /\ InitOthers
    /\ nModals = 1
    /\ \E o \in OptionSpace :
         options = [m \in ModalIds |-> IF m = 1 THEN o ELSE DefaultOptions]

Did(op, m) == /\ last' = [op |-> op, m |-> m]
              /\ UNCHANGED <<origPE, posVars, otherVars>>

\* ----------------------------------------------------- sequencer's actions
CallPromptForOnboardingTour ==
    /\ nModals < MaxModals
    /\ Commit(PromptForOnboardingTour(World))
    /\ Did("promptForOnboardingTour", nModals + 1)
    /\ UNCHANGED geom

CallShowTutorialModal ==
    /\ nModals < MaxModals
    /\ \E a \in StepArgs, target \in Selectors, block \in BOOLEAN,
          backdrop \in BOOLEAN :
         Commit(ShowTutorialModal(World, a, target, block, backdrop))
    /\ Did("showTutorialModal", nModals + 1)
    /\ UNCHANGED geom

CallHighlightTutorialTarget ==
    /\ nModals < MaxModals
    /\ \E target \in Selectors, step \in Steps, block \in BOOLEAN :
         Commit(HighlightTutorialTarget(World, target, step, block, geom))
    /\ Did("highlightTutorialTarget", nModals + 1)
    /\ UNCHANGED geom

CallAddTutorialBackdrop ==
    /\ nModals < MaxModals
    /\ Commit(AddTutorialBackdrop(World))
    /\ Did("addTutorialBackdrop", nModals + 1)
    /\ UNCHANGED geom

CallDestroyActiveTutorialModal ==
    /\ Commit(DestroyActiveTutorialModal(World))
    /\ Did("destroyActiveTutorialModal", activeModal)
    /\ UNCHANGED geom

CallPositionTutorialTarget ==
    /\ Commit(PositionTutorialTarget(World))
    /\ Did("positionTutorialTarget", activeModal)
    /\ UNCHANGED geom

\* the user clicks the close button of overlay m
ClickCloseButton(m) ==
    /\ NoPending
    /\ CloseButtonClickable(m)
    /\ closedSent[m] < MaxClicks
    /\ timers[m] < MaxTimers
    /\ Commit(CloseButtonHandler(World, m))
    /\ Did("click", m)
    /\ UNCHANGED geom

\* the window is resized to layout g
WindowResize(g) ==
    /\ Commit(DispatchResize(World, resizeListeners, g))
    /\ geom' = g
    /\ Did("resize", NoModal)

FireDetachTimer(m) ==
    /\ NoPending
    /\ timers[m] > 0
    /\ Commit(DetachTimer(World, m))
    /\ Did("timer", m)
    /\ UNCHANGED geom

Next ==
    \/ CallPromptForOnboardingTour
    \/ CallShowTutorialModal
    \/ CallHighlightTutorialTarget
    \/ CallAddTutorialBackdrop
    \/ CallDestroyActiveTutorialModal
    \/ CallPositionTutorialTarget
    \/ \E m \in ModalIds : ClickCloseButton(m)
    \/ \E g \in Geoms : WindowResize(g)
    \/ \E m \in ModalIds : FireDetachTimer(m)

Spec == Init /\ [][Next]_vars

\* ------------------------------------------- one Modal, called in any order
\* show(), close() and destroy() may be called one after another in the same
\* task; the task ends with RunMicrotasks
CallShow(m) ==
    /\ m <= nModals
    /\ CommitSync(Show(World, m))
    /\ Did("show", m)
    /\ UNCHANGED geom

CallClose(m) ==
    /\ m <= nModals
    /\ isVisible[m] => timers[m] < MaxTimers
    /\ CommitSync(Close(World, m))
    /\ Did("close", m)
    /\ UNCHANGED geom

CallDestroy(m) ==
    /\ m <= nModals
    /\ isVisible[m] => timers[m] < MaxTimers
    /\ CommitSync(Destroy(World, m))
    /\ Did("destroy", m)
    /\ UNCHANGED geom

\* the calling task ends: the suspended positionModal calls resume
RunMicrotasks ==
    /\ ~NoPending
    /\ Commit(World)
    /\ Did("microtasks", NoModal)
    /\ UNCHANGED geom

NextModal ==
    \/ \E m \in ModalIds : CallShow(m)
    \/ \E m \in ModalIds : CallClose(m)
    \/ \E m \in ModalIds : CallDestroy(m)
    \/ RunMicrotasks
    \/ \E m \in ModalIds : ClickCloseButton(m)
    \/ \E m \in ModalIds : FireDetachTimer(m)

SpecModal == InitModal /\ [][NextModal]_vars

\* ------------------------------------------------------ one AnkiHubModal
\* the tutorial overlay subsystem at rest
TutorialIdle ==
    /\ InitCommon
    /\ InitGeometry
    /\ origPE = [e \in Elements |-> ""]
    /\ nModals = 0
    /\ options = [m \in ModalIds |-> DefaultOptions]

InitWebModal ==
    /\ TutorialIdle
    /\ effect = EffectIdle(NoAttr)
    /\ fsrs = FsrsPage(<<>>)
    /\ buttons = NewReviewerButtons("light")
    /\ ai = NewAnkiHubAI("")
    /\ \E vp \in WebViewports :
         webModal \in {NewWebModal(h, p, b, vp, r, x) :
                         h \in BOOLEAN, p \in WebPositions, b \in BOOLEAN,
                         r \in WebRectsIn(vp), x \in WebBoxesIn(vp)}

WebDid(op, cmds) ==
    /\ out' = cmds
    /\ last' = [op |-> op, m |-> NoModal]
    /\ UNCHANGED <<tutorialVars, effect, fsrs, buttons, ai>>

WebCallShow ==
    /\ webModal' = WebShow(webModal)
    /\ WebDid("web.show", <<>>)

WebCallClose ==
    /\ webModal.isVisible => webModal.detachTimers < MaxTimers
    /\ webModal' = WebClose(webModal)
    /\ WebDid("web.close", <<>>)

WebCallDestroy ==
    /\ webModal.isVisible => webModal.detachTimers < MaxTimers
    /\ webModal' = WebDestroy(webModal)
    /\ WebDid("web.destroy", <<>>)

\* the close button's click listener: close(); pycmd("ankihub_modal_closed")
WebClickCloseButton ==
    /\ webModal.attached
    /\ webModal.isVisible => webModal.detachTimers < MaxTimers
    /\ webModal' = WebClose(webModal)
    /\ WebDid("web.click", <<Cmd("ankihub_modal_closed")>>)

\* a click on the backdrop itself
WebClickBackdrop ==
    /\ webModal.attached
    /\ webModal.isVisible => webModal.detachTimers < MaxTimers
    /\ webModal' = IF webModal.closeOnBackdropClick THEN WebClose(webModal)
                   ELSE webModal
    /\ WebDid("web.backdropClick", <<>>)

\* the window is resized and the target moves to rectangle r
WebWindowResize(r) ==
    LET w == [webModal EXCEPT !.targetRect = r] IN
    /\ r.left + r.width <= webModal.innerWidth
    /\ r.top + r.height <= webModal.innerHeight
    /\ webModal' = IF w.resizeListener THEN WebResizeHandler(w) ELSE w
    /\ WebDid("web.resize", <<>>)

WebFireResizeTimeout ==
    /\ webModal.resizeTimeout
    /\ webModal' = WebResizeTimeout(webModal)
    /\ WebDid("web.resizeTimeout", <<>>)

WebFireDetachTimer ==
    /\ webModal.detachTimers > 0
    /\ webModal' = WebDetachTimer(webModal)
    /\ WebDid("web.detachTimer", <<>>)

NextWebModal ==
    \/ WebCallShow
    \/ WebCallClose
    \/ WebCallDestroy
    \/ WebClickCloseButton
    \/ WebClickBackdrop
    \/ \E r \in AnchorRects : WebWindowResize(r)
    \/ WebFireResizeTimeout
    \/ WebFireDetachTimer

SpecWebModal == InitWebModal /\ [][NextWebModal]_vars

\* ------------------------------------------- the TutorialEffect sequencer
InitEffect ==
    /\ TutorialIdle
    /\ webModal = WebModalIdle
    /\ fsrs = FsrsPage(<<>>)
    /\ buttons = NewReviewerButtons("light")
    /\ ai = NewAnkiHubAI("")
    /\ \E v \in OnclickValues : effect = EffectIdle(v)

EffectDid(op, cmds) ==
    /\ out' = cmds
    /\ last' = [op |-> op, m |-> NoModal]
    /\ UNCHANGED <<tutorialVars, webModal, fsrs, buttons, ai>>

CallShowModal ==
    /\ effect' = CreateAndShowEffect(effect,
                     EffectOptions(TRUE, FALSE, NoTarget, FALSE, ""),
                     "showModal")
    /\ EffectDid("showModal", <<>>)

CallShowTutorialStep ==
    \E target \in {"#e1", "#missing"}, block \in BOOLEAN,
       clickTarget \in ClickSelectors :
      /\ effect' = CreateAndShowEffect(effect,
                       EffectOptions(TRUE, FALSE, target, block, clickTarget),
                       "showTutorialStep")
      /\ EffectDid("showTutorialStep", <<>>)

CallEffectHighlightTutorialTarget ==
    \E target \in {"#e1", "#missing"}, step \in Steps, block \in BOOLEAN,
       backdrop \in BOOLEAN :
      LET f == EffectHighlight(effect, target, step, block, backdrop) IN
      /\ effect' = f
      /\ EffectDid("highlightTutorialTarget", EffectResizeHandler(f))

CallEffectAddTutorialBackdrop ==
    /\ effect' = CreateAndShowEffect(effect,
                     EffectOptions(FALSE, TRUE, NoTarget, FALSE, ""),
                     "addTutorialBackdrop")
    /\ EffectDid("addTutorialBackdrop", <<>>)

CallDestroyActiveTutorialEffect ==
    /\ effect' = DestroyActiveTutorialEffect(effect)
    /\ EffectDid("destroyActiveTutorialEffect", <<>>)

\* the window is resized to layout g: every registered sequencer handler runs
EffectWindowResize(g) ==
    LET f == [effect EXCEPT !.geom = g] IN
    /\ effect' = f
    /\ EffectDid("effect.resize",
                 IF f.resizeHandlers > 0 THEN EffectResizeHandler(f) ELSE <<>>)

\* the user clicks e1: the intercepting listener, then the handler of the
\* element's onclick attribute
EffectClickTarget ==
    /\ effect.stylePE # "none"
    /\ effect' = [effect EXCEPT !.onclickRan = Truthy(effect.onclick)]
    /\ EffectDid("effect.click",
                 IF effect.clickListener THEN <<TargetClick>> ELSE <<>>)

NextEffect ==
    \/ CallShowModal
    \/ CallShowTutorialStep
    \/ CallEffectHighlightTutorialTarget
    \/ CallEffectAddTutorialBackdrop
    \/ CallDestroyActiveTutorialEffect
    \/ \E g \in Geoms : EffectWindowResize(g)
    \/ EffectClickTarget

SpecEffect == InitEffect /\ [][NextEffect]_vars

\* ------------------------------------------ the FSRS parameters textarea
InitFsrs ==
    /\ TutorialIdle
    /\ webModal = WebModalIdle
    /\ effect = EffectIdle(NoAttr)
    /\ buttons = NewReviewerButtons("light")
    /\ ai = NewAnkiHubAI("")
    /\ \E v \in TextValues : fsrs = FsrsPage(v)

\* a step of the FSRS page that leaves f, having sent f.cmds
FsrsDid(op, f) ==
    /\ fsrs' = [f EXCEPT !.cmds = <<>>]
    /\ out' = f.cmds
    /\ last' = [op |-> op, m |-> NoModal]
    /\ UNCHANGED <<tutorialVars, webModal, effect, buttons, ai>>

\* initializeFsrsRevertUI() at page load
FsrsSetup ==
    /\ ~fsrs.ready
    /\ FsrsDid("fsrs.setup", SetupTextAreaListener(fsrs))

\* the user edits the textarea: an input event
FsrsInput(v) ==
    /\ fsrs.ready
    /\ FsrsDid("fsrs.input", OnChange([fsrs EXCEPT !.value = v, !.sinceEvent = 0]))

\* updateFsrsParametersTextarea(params): the patched setter dispatches
\* fsrsParamsUpdated, then an input event is dispatched
FsrsUpdateTextarea(v) ==
    /\ fsrs.ready
    /\ FsrsDid("fsrs.update",
               OnChange(OnChange([fsrs EXCEPT !.value = v, !.sinceEvent = 0])))

\* TickMs pass and no timer is due
FsrsTick ==
    /\ fsrs.timers # <<>>
    /\ \A i \in 1..Len(fsrs.timers) : fsrs.timers[i] < DEBOUNCE_MS
    /\ FsrsDid("fsrs.tick",
               [fsrs EXCEPT !.timers = [i \in 1..Len(@) |-> @[i] + TickMs],
                            !.sinceEvent = @ + TickMs])

\* the oldest timer is due: processChange()
FsrsFireTimer ==
    /\ fsrs.timers # <<>>
    /\ Head(fsrs.timers) >= DEBOUNCE_MS
    /\ FsrsDid("fsrs.timer",
               ProcessChange([fsrs EXCEPT !.timers = Tail(@)], FALSE))

NextFsrs ==
    \/ FsrsSetup
    \/ \E v \in TextValues : FsrsInput(v)
    \/ \E v \in TextValues : FsrsUpdateTextarea(v)
    \/ FsrsTick
    \/ FsrsFireTimer

SpecFsrs == InitFsrs /\ [][NextFsrs]_vars

\* ------------------------------------------------- the reviewer buttons
InitButtons ==
    /\ TutorialIdle
    /\ webModal = WebModalIdle
    /\ effect = EffectIdle(NoAttr)
    /\ fsrs = FsrsPage(<<>>)
    /\ ai = NewAnkiHubAI("")
    /\ \E theme \in Themes : buttons = NewReviewerButtons(theme)

\* the instance a step leaves that computed b: the commands are sent
ButtonsAfter(b) == [b EXCEPT !.cmds = <<>>, !.prevActive = buttons.active]

ButtonsDid(op, b) ==
    /\ out' = b.cmds
    /\ last' = [op |-> op, m |-> NoModal]
    /\ UNCHANGED <<tutorialVars, webModal, effect, fsrs, ai>>

\* the user clicks a button that is displayed
ClickButton(name) ==
    /\ buttons.display[name] # "none"
    /\ buttons' = ButtonsAfter(ButtonOnclick(buttons, name))
    /\ ButtonsDid("buttons.click", ButtonOnclick(buttons, name))

CallSetButtonStateByName(name, active) ==
    /\ buttons' = ButtonsAfter(SetButtonStateByName(buttons, name, active))
    /\ ButtonsDid("setButtonStateByName",
                  SetButtonStateByName(buttons, name, active))

CallUnselectAllButtons ==
    /\ buttons' = ButtonsAfter(UnselectAllButtons(buttons))
    /\ ButtonsDid("unselectAllButtons", UnselectAllButtons(buttons))

CallUpdateButtons(isAnKingDeck) ==
    /\ buttons' = ButtonsAfter(UpdateButtons(buttons, isAnKingDeck))
    /\ ButtonsDid("updateButtons", UpdateButtons(buttons, isAnKingDeck))

NextButtons ==
    \/ \E name \in ButtonSet : ClickButton(name)
    \/ \E name \in ButtonSet \cup {"other"}, active \in BOOLEAN :
          CallSetButtonStateByName(name, active)
    \/ CallUnselectAllButtons
    \/ \E isAnKingDeck \in BOOLEAN : CallUpdateButtons(isAnKingDeck)

SpecButtons == InitButtons /\ [][NextButtons]_vars

\* ---------------------------------------------------- the chatbot iframe
InitAI ==
    /\ TutorialIdle
    /\ webModal = WebModalIdle
    /\ effect = EffectIdle(NoAttr)
    /\ fsrs = FsrsPage(<<>>)
    /\ buttons = NewReviewerButtons("light")
    /\ \E token \in Tokens : ai = NewAnkiHubAI(token)

\* the instance a step leaves that computed a: the commands are sent
AIAfter(a) == [a EXCEPT !.cmds = <<>>]

\* the history fields at the start of a step
AIBefore == [ai EXCEPT !.assigned = "", !.assignedFresh = FALSE,
                       !.assignedEqual = FALSE]

AIDid(op, a) ==
    /\ out' = a.cmds
    /\ last' = [op |-> op, m |-> NoModal]
    /\ UNCHANGED <<tutorialVars, webModal, effect, fsrs, buttons>>

ClickToggleButton ==
    /\ ai' = AIAfter(ToggleButtonOnclick(AIBefore))
    /\ AIDid("ai.click", ToggleButtonOnclick(AIBefore))

CallCardChanged(noteId) ==
    /\ ai' = AIAfter(CardChanged(AIBefore, noteId))
    /\ AIDid("cardChanged", CardChanged(AIBefore, noteId))

CallSetToken(token) ==
    /\ ai' = AIAfter(SetToken(AIBefore, token))
    /\ AIDid("setToken", SetToken(AIBefore, token))

ReceiveMessage(fromApp, data) ==
    /\ ai' = AIAfter(MessageListener(AIBefore, fromApp, data))
    /\ AIDid("ai.message", MessageListener(AIBefore, fromApp, data))

NextAI ==
    \/ ClickToggleButton
    \/ \E noteId \in NoteIds : CallCardChanged(noteId)
    \/ \E token \in Tokens : CallSetToken(token)
    \/ \E fromApp \in BOOLEAN, data \in {"Authentication failed", "relay"} :
          ReceiveMessage(fromApp, data)

SpecAI == InitAI /\ [][NextAI]_vars

\* ------------------------------------------------ placement of one overlay
InitPosition ==
    /\ InitCommon
    /\ InitOthers
    /\ nModals = 1
    /\ options = [m \in ModalIds |-> [DefaultOptions EXCEPT !.hasBody = TRUE]]
    /\ anchor \in AnchorRects
    /\ modalBox \in ModalBoxes
    /\ virtualRect = <<>>
    /\ modalStyle = <<>>

\* positionModal(targetElement), as show() calls it, with the target laid out
\* at the anchor rectangle
CallPositionModal ==
    /\ modalStyle' = <<PositionedStyle(
                         ElementRect(anchor.top, anchor.left,
                                     anchor.width, anchor.height), modalBox)>>
    /\ last' = [op |-> "positionModal", m |-> 1]
    /\ UNCHANGED <<modalVars, domVars, seqVars, error, out, closedSent,
                   anchor, modalBox, virtualRect, otherVars>>

\* setModalPosition(top, left, width, height) with the anchor's numbers
CallSetModalPosition ==
    LET v == VirtualRect(anchor.top, anchor.left, anchor.width, anchor.height) IN
    /\ virtualRect' = <<v>>
    /\ modalStyle' = <<PositionedStyle(v, modalBox)>>
    /\ last' = [op |-> "setModalPosition", m |-> 1]
    /\ UNCHANGED <<modalVars, domVars, seqVars, error, out, closedSent,
                   anchor, modalBox, otherVars>>

NextPosition ==
    \/ CallPositionModal
    \/ CallSetModalPosition

SpecPosition == InitPosition /\ [][NextPosition]_vars

TypeOK ==
    /\ nModals \in 0..MaxModals
    /\ isVisible \in [ModalIds -> BOOLEAN]
    /\ targetElement \in [ModalIds -> Elements \cup {NULL}]
    /\ timers \in [ModalIds -> 0..MaxTimers]
    /\ stylePE \in [Elements -> PEValues]
    /\ attrPE \in [Elements -> PEValues \cup {NoAttr}]
    /\ activeModal \in 0..MaxModals
    /\ webModal.detachTimers \in 0..MaxTimers
    /\ effect.targetElement \in {"e1", NULL}
    /\ fsrs.value \in TextValues
    /\ buttons.active \in [ButtonSet -> BOOLEAN]
    /\ ai.noteIdOfChatbot \in NoteIds \cup {NoNote}

\* ----------------------------------------------------------------- claims
Visible == {m \in ModalIds : isVisible[m]}
Spotlit == {e \in Elements : "ah-spotlight-active" \in classList[e]}
VisibleTargets == {targetElement[m] : m \in Visible} \ {NULL}
Occurrences(children, m) == Cardinality({i \in 1..Len(children) : children[i] = m})
ModalClosed == Cmd("ankihub_modal_closed")
EntryPoints == {"promptForOnboardingTour", "showTutorialModal",
                "highlightTutorialTarget", "addTutorialBackdrop"}

\* C1: in every reachable state of the sequencer at most one Modal is visible,
\* and it is the active one; every overlay but the newest one has been
\* destroyed (not visible, no target, no arrow) by the time the newest exists.
C1_AtMostOneVisible ==
    /\ Cardinality(Visible) <= 1
    /\ \A m \in Visible : m = activeModal
    /\ \A m \in ModalIds :
         m < nModals => /\ ~isVisible[m]
                        /\ targetElement[m] = NULL
                        /\ ~arrowElement[m]

\* an entry point has replaced an overlay that was still visible
C1_Witness ==
    /\ last = [op |-> "showTutorialModal", m |-> 2]
    /\ isVisible[2] /\ activeModal = 2
    /\ timers[1] = 1 /\ closedSent[1] = 0

\* C2 as stated: at every moment at most one overlay host is attached to
\* document.body.
C2_AtMostOneHostAttached == Len(bodyChildren) <= 1

\* C2 as amended: at most one attached host belongs to a visible overlay; every
\* other attached host belongs to a closed overlay whose detach timer is
\* pending, and no host is attached twice.
C2_AtMostOneVisibleHost ==
    /\ \A m \in ModalIds : Occurrences(bodyChildren, m) <= 1
    /\ Cardinality({m \in ModalIds : Attached(bodyChildren, m) /\ isVisible[m]}) <= 1
    /\ \A m \in ModalIds : isVisible[m] => Attached(bodyChildren, m)
    /\ \A m \in ModalIds :
         (Attached(bodyChildren, m) /\ ~isVisible[m]) => timers[m] > 0

\* the old host is still attached, fading out, under the new overlay's host
C2_Witness ==
    /\ bodyChildren = <<1, 2>>
    /\ isVisible[2] /\ ~isVisible[1] /\ timers[1] = 1
    /\ last.op \in EntryPoints

\* C3: the spotlighted elements are exactly the resolved target of the visible
\* overlay (none when no overlay is visible); every other element carries no
\* marker class and no pointer-events 'none' that the host page had not set.
C3_SpotlightExclusive ==
    /\ Spotlit = VisibleTargets
    /\ \A e \in Elements \ VisibleTargets :
         /\ classList[e] = {}
         /\ stylePE[e] = "none" => origPE[e] = "none"

\* showTutorialModal was called twice in a row with different targets
C3_Witness ==
    /\ last = [op |-> "showTutorialModal", m |-> 2]
    /\ options[1].hasBody /\ options[1].target = "#e1" /\ options[1].blockTargetClick
    /\ options[2].target = "#e2"
    /\ timers[1] = 1 /\ closedSent[1] = 0
    /\ Spotlit = {"e2"} /\ stylePE["e1"] = origPE["e1"]

\* C4: with blockTargetClick, a target whose inline pointer-events was unset
\* or 'auto' has 'none' while the overlay is shown and exactly its former
\* value once close() or destroy() has removed the spotlight.
C4_SpotlightRoundTrip ==
    \A m \in ModalIds :
      LET e == QuerySelector(options[m].target) IN
      (m <= nModals /\ options[m].blockTargetClick /\ e # NULL
        /\ origPE[e] \in {"", "auto"}) =>
          /\ isVisible[m] => (targetElement[m] = e /\ stylePE[e] = "none")
          /\ ~isVisible[m] => stylePE[e] = origPE[e]

\* an 'auto' target was spotlighted with blocked clicks and then released
C4_Witness ==
    /\ last.op \in {"close", "destroy"}
    /\ options[1].blockTargetClick /\ options[1].target = "#e1"
    /\ origPE["e1"] = "auto" /\ stylePE["e1"] = "auto"
    /\ timers[1] > 0 /\ classList["e1"] = {}

\* C5 as stated: after destroy() (close()'s removeSpotlight followed by a second
\* removeSpotlight) every target's inline pointer-events equals its
\* pre-spotlight value.
C5_RemoveTwiceRestores ==
    last.op = "destroy" => \A e \in Elements : stylePE[e] = origPE[e]

\* C6 as stated: no overlay ever sends more than one ankihub_modal_closed.
C6_ExactlyOneClosedPerOverlay ==
    \A m \in ModalIds : closedSent[m] <= 1

\* C6 as amended: every click on the close button sends exactly one
\* ankihub_modal_closed and leaves the overlay closed; a click on a visible
\* overlay removes the spotlight and schedules the detach, a click on an
\* overlay that is fading out schedules nothing more.
C6_EveryClickNotifies ==
    [][\A m \in ModalIds :
        (last' = [op |-> "click", m |-> m]) =>
           /\ out' = <<ModalClosed>>
           /\ closedSent'[m] = closedSent[m] + 1
           /\ ~isVisible'[m]
           /\ targetElement'[m] = NULL
           /\ isVisible[m] =>
                 /\ timers'[m] = timers[m] + 1
                 /\ targetElement[m] # NULL => classList'[targetElement[m]] = {}
           /\ ~isVisible[m] => timers'[m] = timers[m]]_vars

\* the close button was clicked again while the overlay was fading out
C6_Witness ==
    /\ last = [op |-> "click", m |-> 1]
    /\ closedSent[1] = 2 /\ timers[1] = 1 /\ ~isVisible[1]

\* C7: the instance's host is never attached twice; destroy() leaves the
\* overlay not visible with its detach scheduled if the host is attached; and
\* whenever the overlay is not visible and no detach timer is pending, the
\* host is not attached.
C7_EventuallyDetached ==
    \A m \in ModalIds :
      /\ Occurrences(bodyChildren, m) <= 1
      /\ last = [op |-> "destroy", m |-> m] =>
            /\ ~isVisible[m]
            /\ Attached(bodyChildren, m) => timers[m] > 0
      /\ (~isVisible[m] /\ timers[m] = 0) => ~Attached(bodyChildren, m)

\* destroy() ran while the fade-out of an earlier close() was still pending
C7_Witness ==
    /\ last = [op |-> "destroy", m |-> 1]
    /\ timers[1] = 2 /\ Attached(bodyChildren, 1)

\* C8: show() on a visible overlay, and close() or destroy() on an overlay
\* that is not visible (never shown, closed or destroyed), change nothing and
\* send nothing.
C8_RedundantCallsAreNoOps ==
    [][\A m \in ModalIds :
        (\/ last' = [op |-> "show", m |-> m] /\ isVisible[m]
         \/ last' = [op |-> "close", m |-> m] /\ ~isVisible[m]
         \/ last' = [op |-> "destroy", m |-> m] /\ ~isVisible[m])
        => /\ UNCHANGED <<modalVars, domVars, seqVars, error, closedSent>>
           /\ out' = <<>>]_vars

\* close() was called on an overlay that was not visible
C8_Witness ==
    /\ last = [op |-> "close", m |-> 1]
    /\ ~isVisible[1] /\ timers[1] = 0

\* C9: with a selector that matches nothing, no step raises an error, touches
\* an element, sets targetElement or installs an auto-update; show() on the
\* overlay that is not yet visible leaves it visible and attached.
C9_MissingTarget ==
    [][\A m \in ModalIds :
        (m <= nModals /\ options[m].target = "#missing") =>
           /\ ~error'
           /\ targetElement'[m] = NULL
           /\ ~cleanUpdateHandler'[m]
           /\ \A e \in Elements :
                /\ classList'[e] = {}
                /\ stylePE'[e] = origPE[e]
                /\ attrPE'[e] = NoAttr
           /\ (last' = [op |-> "show", m |-> m] /\ ~isVisible[m]) =>
                (isVisible'[m] /\ Attached(bodyChildren', m))]_vars

\* an overlay with a missing target was shown and then destroyed
C9_Witness ==
    /\ options[1].target = "#missing"
    /\ last = [op |-> "destroy", m |-> 1]
    /\ timers[1] = 1 /\ ~isVisible[1]

\* C10: while a highlight with a resolved target is the active visible
\* overlay, a window resize sends exactly one ankihub_tutorial_target_resize,
\* with the highlight's step and the target's rectangle in the new layout.
C10_ResizeRelay ==
    (/\ last.op = "resize"
     /\ activeModal # NoModal
     /\ targetResizeHandler = activeModal
     /\ isVisible[activeModal]
     /\ targetElement[activeModal] # NULL)
    => out = <<ResizeCmd(options[activeModal].step,
                         BoundingRect(targetElement[activeModal], geom))>>

\* the second highlight's target was reported after a resize
C10_Witness ==
    /\ last.op = "resize" /\ geom = 2
    /\ activeModal = 2 /\ targetResizeHandler = 2
    /\ out = <<ResizeCmd(2, BoundingRect("e2", 2))>>

\* C11 as stated: the only sequencer-installed resize listeners still
\* registered are those of a highlight that is the active overlay.
C11_NoLeakedListeners ==
    \A h \in resizeListeners : h = activeModal /\ targetResizeHandler = h

\* the nodes of a rendered footer, as a set
FooterNodes(o) == {RenderedFooter(o)[i] : i \in 1..Len(RenderedFooter(o))}

\* C12 as stated: after showTutorialModal with currentStep n and stepCount t
\* the attached overlay's footer contains the text 'n of t', and a button
\* labelled primaryButton.label is in the footer exactly if primaryButton.show.
C12_StepFooterRendered ==
    \A m \in ModalIds :
      last = [op |-> "showTutorialModal", m |-> m] =>
        \E a \in StepArgs :
          /\ options[m].footer = StepFooter(a)
          /\ Attached(bodyChildren, m)
          /\ Span(StepText(a.currentStep, a.stepCount)) \in FooterNodes(options[m])
          /\ a.primaryButton.show <=>
               (\E b \in FooterNodes(options[m]) :
                   b.tag = "button" /\ b.text = a.primaryButton.label)

\* C13 as stated: after promptForOnboardingTour the visible overlay has no
\* target and offers a dismiss action that destroys the overlay and a begin
\* action that sends ankihub_start_onboarding.
C13_PromptActionsOffered ==
    \A m \in ModalIds :
      last = [op |-> "promptForOnboardingTour", m |-> m] =>
        /\ isVisible[m] /\ activeModal = m
        /\ options[m].target = NoTarget /\ targetElement[m] = NULL
        /\ \E b \in FooterNodes(options[m]) : b.click = "destroyActiveTutorialModal"
        /\ \E b \in FooterNodes(options[m]) : b.click = "ankihub_start_onboarding"

\* the overlays constructed so far whose target selector resolves to e
OverlaysOn(e) ==
    {m \in ModalIds : m <= nModals /\ QuerySelector(options[m].target) = e}

\* C14: every overlay but the newest has had its spotlight removed and its
\* detach scheduled; and for an element targeted only by overlays that block
\* target clicks, the recorded original pointer-events is the host page's
\* value, the inline value is 'none' while such an overlay is visible on it
\* and the host page's value once none is.
C14_ReplacementOrdering ==
    /\ \A m \in ModalIds :
         m < nModals => /\ ~isVisible[m]
                        /\ targetElement[m] = NULL
                        /\ Attached(bodyChildren, m) => timers[m] > 0
    /\ \A e \in Elements :
         (\A m \in OverlaysOn(e) : options[m].blockTargetClick) =>
            /\ attrPE[e] \in {NoAttr, origPE[e]}
            /\ IF e \in VisibleTargets
               THEN stylePE[e] = "none"
               ELSE stylePE[e] = origPE[e]

\* two blocking overlays in a row targeted the same 'auto' element, and the
\* second one has been destroyed
C14_Witness ==
    /\ last = [op |-> "destroyActiveTutorialModal", m |-> 2]
    /\ OverlaysOn("e1") = {1, 2}
    /\ options[1].blockTargetClick /\ options[2].blockTargetClick
    /\ options[2].hasBody
    /\ origPE["e1"] = "auto" /\ stylePE["e1"] = "auto" /\ attrPE["e1"] = NoAttr
    /\ timers[1] = 1 /\ timers[2] = 1

\* C15 as stated: while an overlay with a non-empty body is shown on a
\* resolved target, an auto-update subscription exists (cleanUpdateHandler is
\* defined).
C15_AutoUpdateWhileShown ==
    \A m \in ModalIds :
      (isVisible[m] /\ options[m].hasBody /\ targetElement[m] # NULL)
        => cleanUpdateHandler[m]

\* C16 as stated: a positionModal call that resumes after close() or
\* destroy() raises no error.
C16_ResumeAfterCloseIsSafe ==
    last.op = "microtasks" => ~error

\* C17 as stated: after destroy() returns, no timer of the instance is
\* pending.
C17_NoTimerAfterDestroy ==
    \A m \in ModalIds :
      last = [op |-> "destroy", m |-> m] => timers[m] = 0

\* C20 as stated: for an overlay that does not block target clicks, show()
\* followed by close() or destroy() leaves the target's inline pointer-events
\* equal to its value before show().
C20_HostStylePreserved ==
    \A m \in ModalIds :
      LET e == QuerySelector(options[m].target) IN
      (/\ m <= nModals /\ e # NULL
       /\ ~options[m].blockTargetClick
       /\ last.op \in {"close", "destroy"} /\ last.m = m)
      => stylePE[e] = origPE[e]

\* the overlay's box at the position positionModal gave it
ModalRect ==
    RectToClientRect([x |-> modalStyle[1].left, y |-> modalStyle[1].top,
                      width |-> modalBox.width, height |-> modalBox.height])

\* C18 as stated: for an anchor inside the viewport, the top / left that
\* positionModal applies keep the overlay's box inside the viewport.
C18_ViewportContainment ==
    modalStyle # <<>> =>
       /\ ModalRect.top >= 0
       /\ ModalRect.left >= 0
       /\ ModalRect.right <= ViewportWidth
       /\ ModalRect.bottom <= ViewportHeight

\* C19 as stated: the virtual anchor's rectangle is the supplied rectangle:
\* x = left, y = top, right = left + width, bottom = top + height.
C19_VirtualRectConsistent ==
    virtualRect # <<>> =>
       LET v == virtualRect[1] IN
       /\ v.top = anchor.top /\ v.left = anchor.left
       /\ v.width = anchor.width /\ v.height = anchor.height
       /\ v.x = v.left /\ v.y = v.top
       /\ v.right = v.left + v.width
       /\ v.bottom = v.top + v.height

\* C21 as stated: the parent's inline backdrop-filter is 'none' while its
\* child is spotlighted, and once the overlay is closed or destroyed it has
\* the value it had before applySpotlight.
C21_ParentFilterRestored ==
    \A m \in ModalIds :
      LET e == QuerySelector(options[m].target) IN
      (m <= nModals /\ e # NULL) =>
         /\ (isVisible[m] /\ targetElement[m] = e) => parentBF[e] = "none"
         /\ ~isVisible[m] => parentBF[e] = HostParentBF(e)

\* C23 as stated: whenever an overlay is visible its host element is attached
\* to document.body.
C23_VisibleImpliesAttached ==
    \A m \in ModalIds : isVisible[m] => Attached(bodyChildren, m)

\* C24 as stated: activeModal is non-null only if the overlay it refers to is
\* visible.
C24_ActiveIsVisible ==
    activeModal # NoModal => isVisible[activeModal]

\* the overlay's box at the position AnkiHubModal.positionModal gave it
WebModalRect ==
    RectToClientRect([x |-> webModal.style[1].left, y |-> webModal.style[1].top,
                      width |-> webModal.box.width,
                      height |-> webModal.box.height])

WebInsideViewport ==
    /\ 0 <= WebModalRect.top /\ WebModalRect.bottom <= webModal.innerHeight
    /\ 0 <= WebModalRect.left /\ WebModalRect.right <= webModal.innerWidth

\* C22 as stated: every overlay no larger than the viewport, anchored to a
\* target inside the viewport, is kept inside the viewport by the top and
\* left that _positionModal writes.
C22_ClampKeepsInside ==
    (/\ webModal.style # <<>>
     /\ webModal.box.width <= webModal.innerWidth
     /\ webModal.box.height <= webModal.innerHeight)
    => WebInsideViewport

\* C25 as stated: the debounced reposition callback never runs positionModal
\* on a closed overlay (whose targetElement is null), so it raises no error.
C25_NoRepositionAfterClose ==
    last.op = "web.resizeTimeout" => ~webModal.error

\* the effect made by highlightTutorialTarget is still the active one
HighlightLive == effect.active /\ effect.kind = "highlightTutorialTarget"

\* C26 as stated: once the effect made by highlightTutorialTarget has been
\* destroyed or replaced, a window resize sends no
\* ankihub_tutorial_target_resize; at most one sequencer resize listener is
\* registered.
C26_NoStaleResizeReports ==
    /\ effect.resizeHandlers <= 1
    /\ (last.op = "effect.resize" /\ ~HighlightLive) => out = <<>>

\* C27 as stated: after destroy() the click target's onclick attribute is in
\* its pre-effect state, the intercepting listener is gone and no
\* data-ah-original-onclick remains; while an effect with a click target is
\* active a click sends exactly one ankihub_tutorial_target_click and the
\* original onclick does not run.
C27_ClickTargetRoundTrip ==
    /\ ~effect.active =>
          /\ effect.onclick = effect.origOnclick
          /\ ~effect.clickListener
          /\ effect.dataOnclick = NoAttr
    /\ (/\ last.op = "effect.click"
        /\ effect.active /\ effect.clickTargetElement # NULL) =>
          /\ out = <<TargetClick>>
          /\ ~effect.onclickRan

\* C28: at most one debounce timer is pending; a command is sent only by
\* the initial sync or by a timer that fires DEBOUNCE_MS after the last
\* event, one command at most per firing; no two consecutive commands carry
\* the same trimmed value.
C28_DebouncedRelay ==
    /\ Len(fsrs.timers) <= 1
    /\ Len(out) <= 1
    /\ out # <<>> =>
          \/ last.op = "fsrs.setup"
          \/ last.op = "fsrs.timer" /\ fsrs.sinceEvent = DEBOUNCE_MS
    /\ ~fsrs.repeated
    /\ fsrs.lastSent # <<>> => fsrs.lastSent = <<fsrs.lastValue>>

\* a timer fired at the end of a burst and relayed a changed value
C28_Witness ==
    /\ last.op = "fsrs.timer"
    /\ out = <<FsrsChanged(<<"1", "1">>)>>
    /\ fsrs.lastSent = <<<<"1", "1">>>>

\* the commands of the last step that report the button called name
ReportsOf(name) == SelectSeq(out, LAMBDA c : c.buttonName = name)

\* C29 as stated: at most one button is active, and every change of a
\* button's active flag is reported by exactly one
\* ankihub_reviewer_button_toggled carrying the button's name and new state.
C29_ButtonsMutuallyExclusive ==
    /\ Cardinality({n \in ButtonSet : buttons.active[n]}) <= 1
    /\ \A n \in ButtonSet :
         buttons.active[n] # buttons.prevActive[n] =>
            ReportsOf(n) = <<ButtonToggled(n, buttons.active[n])>>

\* C30 as stated: whenever the iframe is visible the chatbot's note is the
\* reviewed card's note and knoxToken is non-empty; iframe.src is assigned
\* only when the two note ids differ; the first assignment after
\* construction or after a session invalidation is the embedded-auth URL.
C30_IframeInSync ==
    /\ ai.iframeVisible =>
          /\ ai.noteIdOfChatbot = ai.noteIdOfReviewerCard
          /\ ai.knoxToken \notin {"", NULL}
    /\ ai.assigned # "" => ~ai.assignedEqual
    /\ (ai.assigned # "" /\ ai.assignedFresh) => ai.assigned = "embedded-auth"

====
